---------------------------- MODULE Spec2Model ----------------------------
(***************************************************************************)
(* A model of the HTTP server of src/src/main.rs: the accept loop of main, *)
(* handle_connection (one read, decode, handle, encode, one write),        *)
(* HttpRequest::from_bytes, handle_request and HttpResponse::encode, with  *)
(* the filesystem and the peers as the environment; and of the             *)
(* HttpRequest::from_bytes of src/src/request.rs, called directly.         *)
(*                                                                         *)
(* Text is a sequence of tokens.  A token stands for a fixed run of bytes  *)
(* ("GET", "CRLF", "something"); the separators the code splits on ("/",   *)
(* SP, ": ", CRLF) are tokens of their own, so every split of the code is  *)
(* computed on the sequence as the code computes it on the bytes.          *)
(***************************************************************************)
EXTENDS Integers, Sequences, FiniteSets

\* ------------------------------------------------------------------ text

SP == "SP"
CRLF == "CRLF"
COLON == ": "
SLASH == "/"
NUL == "NUL*1024"
BADUTF8 == "\\xFF"

\* BytesMut::zeroed(1024): the length of the zero fill of the read buffer.
ZeroFill == 1024

\* The byte length of each token.
TokenLen(t) ==
    CASE t = NUL -> ZeroFill
      [] t \in {SP, SLASH, BADUTF8, "x", "A", "b", "c", "0", "1", "2", "3", "4", "5", "6", "7", "8", "9"} -> 1
      [] t \in {CRLF, COLON, "OK", "hi"} -> 2
      [] t \in {"GET", "PUT", "sub"} -> 3
      [] t \in {"POST", "echo", "/srv", "gzip"} -> 4
      [] t \in {"files", "a.txt", "close", "hello"} -> 5
      [] t \in {"DELETE"} -> 6
      [] t \in {"Created", "Unknown", "missing"} -> 7
      [] t \in {"HTTP/1.1"} -> 8
      [] t \in {"something", "Not Found"} -> 9
      [] t \in {"user-agent", "User-Agent", "test-agent", "Connection", "text/plain", "keep-alive"} -> 10
      [] t \in {"Content-Type"} -> 12
      [] t \in {"Content-Length"} -> 14
      [] t \in {"Accept-Encoding"} -> 15
      [] t \in {"Content-Encoding"} -> 16
      [] t \in {"Internal Server Error"} -> 21
      [] t \in {"application/octet-stream"} -> 24

\* str::len, Vec::len: the number of bytes of a text.
RECURSIVE ByteLen(_)
ByteLen(s) == IF s = <<>> THEN 0 ELSE TokenLen(Head(s)) + ByteLen(Tail(s))

\* usize::to_string, u16 Display: the decimal digits of n.
Digit(d) == <<"0", "1", "2", "3", "4", "5", "6", "7", "8", "9">>[d + 1]

RECURSIVE UsizeToString(_)
UsizeToString(n) ==
    IF n < 10 THEN <<Digit(n)>> ELSE Append(UsizeToString(n \div 10), Digit(n % 10))

\* str::split(sep): the runs between the separators, empty runs included.
Split(s, seps) ==
    LET RECURSIVE go(_, _, _)
        go(i, cur, acc) ==
            IF i > Len(s) THEN Append(acc, cur)
            ELSE IF s[i] \in seps THEN go(i + 1, <<>>, Append(acc, cur))
            ELSE go(i + 1, Append(cur, s[i]), acc)
    IN go(1, <<>>, <<>>)

\* Iterator::filter(|segment| !segment.is_empty())
NonEmpty(parts) == SelectSeq(parts, LAMBDA p : p # <<>>)

SplitWhitespaceKeepEmpty(s) == Split(s, {SP})

\* str::split_whitespace: the non-empty runs between whitespace.
SplitWhitespace(s) == NonEmpty(Split(s, {SP}))

\* BufRead::lines on the byte slice: the runs between line ends, a line end
\* at the end of the input opening no further line.
Lines(s) ==
    LET parts == Split(s, {CRLF})
    IN IF parts[Len(parts)] = <<>> THEN SubSeq(parts, 1, Len(parts) - 1) ELSE parts

\* HashMap::new and HashMap::insert (the last insert of a key wins).
EmptyMap == [k \in {} |-> <<>>]

Insert(m, key, value) ==
    [k \in DOMAIN m \cup {key} |-> IF k = key THEN value ELSE m[k]]

\* ------------------------------------------------------- HttpRequest

\* struct HttpRequest
HttpRequest(method, path, headers, body) ==
    [method |-> method, path |-> path, headers |-> headers, body |-> body]

Ok(v) == [is_ok |-> TRUE, value |-> v, error |-> ""]
Err(e) == [is_ok |-> FALSE, value |-> <<>>, error |-> e]

RECURSIVE ParseHeadersFirstPair(_, _)
ParseHeadersFirstPair(lines, acc) ==
    IF lines = <<>> THEN Ok(acc)
    ELSE LET parts == Split(Head(lines), {COLON})
         IN IF Len(parts) < 2 THEN Err("invalid header")
            ELSE ParseHeadersFirstPair(Tail(lines), Insert(acc, parts[1], parts[2]))

\* The header loop of from_bytes: split each line on ": ", exactly 2 parts,
\* insert; the first malformed line ends the parse.
RECURSIVE ParseHeaders(_, _)
ParseHeaders(lines, acc) ==
    IF lines = <<>> THEN Ok(acc)
    ELSE LET parts == Split(Head(lines), {COLON})
         IN IF Len(parts) # 2 THEN Err("invalid header")
            ELSE ParseHeaders(Tail(lines), Insert(acc, parts[1], parts[2]))

\* HttpRequest::from_bytes of main.rs.
FromBytes(bytes) ==
    IF \E i \in 1..Len(bytes) : bytes[i] = BADUTF8 THEN Err("Invalid request")
    ELSE LET lines == Lines(bytes)
         IN IF lines = <<>> THEN Err("No request line")
            ELSE LET request_line_parts == SplitWhitespace(lines[1])
                 IN IF Len(request_line_parts) # 3 THEN Err("invalid request line")
                    ELSE IF \A i \in 1..Len(lines) : lines[i] # <<>>
                         THEN Err("No request body found")
                    ELSE LET pos == CHOOSE i \in 1..Len(lines) :
                                        /\ lines[i] = <<>>
                                        /\ \A j \in 1..(i - 1) : lines[j] # <<>>
                             hs == ParseHeaders(SubSeq(lines, 2, pos - 1), EmptyMap)
                         IN IF ~hs.is_ok THEN hs
                            ELSE Ok(HttpRequest(request_line_parts[1],
                                                request_line_parts[2],
                                                hs.value, <<>>))

\* ------------------------------------- HttpRequest of src/src/request.rs

\* bytes.windows(4).position(|word| word == b"\r\n\r\n"): the offset of the
\* first blank line, 0 when there is none.
HeaderEnd(bytes) ==
    LET at == {i \in 1..(Len(bytes) - 1) : bytes[i] = CRLF /\ bytes[i + 1] = CRLF}
    IN IF at = {} THEN 0 ELSE CHOOSE i \in at : \A j \in at : i <= j

\* str::lines: the runs between line ends, a line end at the end of the text
\* opening no further line.
StrLines(s) ==
    LET parts == Split(s, {CRLF})
    IN IF parts[Len(parts)] = <<>> THEN SubSeq(parts, 1, Len(parts) - 1) ELSE parts

\* The header loop of request.rs: an empty line ends it, a line that does not
\* split on ": " into exactly 2 parts fails it.
RECURSIVE ParseHeadersRs(_, _)
ParseHeadersRs(lines, acc) ==
    IF lines = <<>> \/ Head(lines) = <<>> THEN Ok(acc)
    ELSE LET parts == Split(Head(lines), {COLON})
         IN IF Len(parts) # 2 THEN Err("invalid header")
            ELSE ParseHeadersRs(Tail(lines), Insert(acc, parts[1], parts[2]))

\* str::parse::<usize>: Some(n) for a run of decimal digits, None otherwise.
IsDigit(t) == \E d \in 0..9 : Digit(d) = t

RECURSIVE DigitsValue(_)
DigitsValue(v) ==
    IF v = <<>> THEN 0
    ELSE LET last == v[Len(v)]
         IN 10 * DigitsValue(SubSeq(v, 1, Len(v) - 1))
              + (CHOOSE d \in 0..9 : Digit(d) = last)

ParseUsize(v) ==
    IF v # <<>> /\ \A i \in 1..Len(v) : IsDigit(v[i])
    THEN [is_some |-> TRUE, value |-> DigitsValue(v)]
    ELSE [is_some |-> FALSE, value |-> 0]

\* headers.get("Content-Length").and_then(|v| v.parse().ok()).unwrap_or(0)
ContentLengthOf(headers) ==
    IF <<"Content-Length">> \in DOMAIN headers
    THEN ParseUsize(headers[<<"Content-Length">>]).value
    ELSE 0

Min(a, b) == IF a <= b THEN a ELSE b

\* body_data[..n]: the first n bytes (n falls on a token boundary for every
\* input of the model).
RECURSIVE TakeBytes(_, _)
TakeBytes(bytes, n) ==
    IF bytes = <<>> \/ TokenLen(Head(bytes)) > n THEN <<>>
    ELSE <<Head(bytes)>> \o TakeBytes(Tail(bytes), n - TokenLen(Head(bytes)))

\* HttpRequest::from_bytes of request.rs.
FromBytesRs(bytes) ==
    LET header_end == HeaderEnd(bytes)
    IN IF header_end = 0 THEN Err("Unable to find header/body seperator")
       ELSE LET header_data == SubSeq(bytes, 1, header_end - 1)
                body_data == SubSeq(bytes, header_end + 2, Len(bytes))
            IN IF \E i \in 1..Len(header_data) : header_data[i] = BADUTF8
               THEN Err("unable to parse header")
               ELSE LET lines == StrLines(header_data)
                    IN IF lines = <<>> THEN Err("No request line")
                       ELSE LET request_line_parts == SplitWhitespace(lines[1])
                            IN IF Len(request_line_parts) # 3
                               THEN Err("invalid request line")
                               ELSE LET hs == ParseHeadersRs(Tail(lines), EmptyMap)
                                    IN IF ~hs.is_ok THEN hs
                                       ELSE Ok(HttpRequest(
                                                request_line_parts[1],
                                                request_line_parts[2],
                                                hs.value,
                                                TakeBytes(body_data,
                                                    Min(ContentLengthOf(hs.value),
                                                        ByteLen(body_data)))))

\* ------------------------------------------------------ HttpResponse

\* HttpResponse::new
HttpResponse(status_code) ==
    [status_code |-> status_code, headers |-> EmptyMap, body |-> <<>>]

not_found == HttpResponse(404)
ok == HttpResponse(200)
internal_server_error == HttpResponse(500)

set_header(resp, header, value) ==
    [resp EXCEPT !.headers = Insert(resp.headers, header, value)]

set_body(resp, body) == [resp EXCEPT !.body = body]

reasonWithoutNotFound(status_code) ==
    CASE status_code = 200 -> "OK"
      [] status_code = 201 -> "Created"
      [] status_code = 500 -> "Internal Server Error"
      [] OTHER -> "Unknown"

\* HttpResponse::reason
reason(status_code) ==
    CASE status_code = 200 -> "OK"
      [] status_code = 201 -> "Created"
      [] status_code = 404 -> "Not Found"
      [] status_code = 500 -> "Internal Server Error"
      [] OTHER -> "Unknown"

\* The orders in which a HashMap of these keys may be iterated.
Orders(keys) ==
    {o \in [1..Cardinality(keys) -> keys] : \A k \in keys : \E i \in DOMAIN o : o[i] = k}

RECURSIVE HeaderLines(_, _)
HeaderLines(headers, order) ==
    IF order = <<>> THEN <<>>
    ELSE Head(order) \o <<COLON>> \o headers[Head(order)] \o <<CRLF>>
         \o HeaderLines(headers, Tail(order))

\* HttpResponse::encode, the headers written in the order the map yields them.
encode(resp, order) ==
    <<"HTTP/1.1", SP>> \o UsizeToString(resp.status_code) \o <<SP, reason(resp.status_code), CRLF>>
    \o HeaderLines(resp.headers, order) \o <<CRLF>> \o resp.body

\* ------------------------------------------------------ ServerConfig

\* Option<String>
None == [is_some |-> FALSE, value |-> <<>>]
Some(v) == [is_some |-> TRUE, value |-> v]

\* struct ServerConfig
ServerConfig(static_directory) == [static_directory |-> static_directory]

\* The command lines the server is started with.
ArgVectors ==
    { <<"server">>,
      <<"server", "--directory">>,
      <<"server", "--directory", "/srv">>,
      <<"server", "--verbose", "/srv">> }

\* main: the configuration built from env::args().
ParseArgs(args) ==
    IF Len(args) > 2 /\ args[2] = "--directory"
    THEN ServerConfig(Some(<<args[3]>>))
    ELSE ServerConfig(None)

\* -------------------------------------------------------- filesystem

RootDir == <<"/srv">>

\* format!("{}/{}", root_dir, file_path)
JoinPath(root_dir, file_path) == root_dir \o <<SLASH>> \o file_path

NoEntry == [kind |-> "none", data |-> <<>>]
DirEntry == [kind |-> "dir", data |-> <<>>]
FileEntry(data) == [kind |-> "file", data |-> data]

\* The contents another actor may give a file.
FileContents == { <<"hi">>, <<"hello", "x">> }

\* The one path whose entry changes while the server runs.
HotPath == JoinPath(RootDir, <<"a.txt">>)

\* The directory tree: the root, a subdirectory, and the file a.txt.
FsPaths == { JoinPath(RootDir, <<>>), JoinPath(RootDir, <<"sub">>), HotPath }

\* std::fs::metadata(&file_path): Err when nothing is at the path.
Metadata(tree, path) ==
    IF path \in DOMAIN tree /\ tree[path].kind # "none"
    THEN Ok([is_file |-> tree[path].kind = "file", len |-> ByteLen(tree[path].data)])
    ELSE Err("metadata")

\* std::fs::read(file_path): Err when no regular file is at the path.
FsRead(tree, path) ==
    IF path \in DOMAIN tree /\ tree[path].kind = "file"
    THEN Ok(tree[path].data)
    ELSE Err("read")

\* ---------------------------------------------------- handle_request

\* Mutant of Segments: the empty segments are kept.
SegmentsKeepEmpty(path) == Split(path, {SLASH})

\* path.split("/").filter(|segment| !segment.is_empty())
Segments(path) == NonEmpty(Split(path, {SLASH}))

\* segments.get(1).unwrap_or(&"")
SecondSegment(segments) == IF Len(segments) >= 2 THEN segments[2] ELSE <<>>

Return(resp) == [next |-> "return", resp |-> resp, file_path |-> <<>>]
CallMetadata(path) == [next |-> "metadata", resp |-> HttpResponse(0), file_path |-> path]

\* Mutant of FilesArm: without a configured directory the default one is served.
FilesArmDefaultDirectory(segments, config) ==
    CallMetadata(JoinPath(IF config.static_directory.is_some
                          THEN config.static_directory.value ELSE RootDir,
                          SecondSegment(segments)))

\* The "files" arm of handle_request up to its call of std::fs::metadata.
FilesArm(segments, config) ==
    IF ~config.static_directory.is_some THEN Return(not_found)
    ELSE CallMetadata(JoinPath(config.static_directory.value, SecondSegment(segments)))

\* Mutant of EchoArm: Content-Length counts the tokens, not the bytes.
EchoArmCountsTokens(segments) ==
    LET message == SecondSegment(segments)
    IN Return(set_body(
           set_header(set_header(ok, <<"Content-Type">>, <<"text/plain">>),
                      <<"Content-Length">>, UsizeToString(Len(message))),
           message))

\* The "echo" arm.
EchoArm(segments) ==
    LET message == SecondSegment(segments)
    IN Return(set_body(
           set_header(set_header(ok, <<"Content-Type">>, <<"text/plain">>),
                      <<"Content-Length">>, UsizeToString(ByteLen(message))),
           message))

\* Mutant of UserAgentArm: a missing header is answered 404.
UserAgentArmNotFound(request) ==
    IF <<"User-Agent">> \in DOMAIN request.headers
    THEN LET user_agent == request.headers[<<"User-Agent">>]
         IN Return(set_body(
                set_header(set_header(ok, <<"Content-Type">>, <<"text/plain">>),
                           <<"Content-Length">>, UsizeToString(ByteLen(user_agent))),
                user_agent))
    ELSE Return(not_found)

\* The "user-agent" arm.
UserAgentArm(request) ==
    IF <<"User-Agent">> \in DOMAIN request.headers
    THEN LET user_agent == request.headers[<<"User-Agent">>]
         IN Return(set_body(
                set_header(set_header(ok, <<"Content-Type">>, <<"text/plain">>),
                           <<"Content-Length">>, UsizeToString(ByteLen(user_agent))),
                user_agent))
    ELSE Return(internal_server_error)

\* handle_request up to its first filesystem call: the match on the first segment.
HandleRequestStart(request, config) ==
    LET segments == Segments(request.path)
    IN IF segments = <<>> THEN Return(ok)
       ELSE CASE segments[1] = <<"files">> -> FilesArm(segments, config)
              [] segments[1] = <<"echo">> -> EchoArm(segments)
              [] segments[1] = <<"user-agent">> -> UserAgentArm(request)
              [] OTHER -> Return(not_found)

\* handle_request after std::fs::metadata returned meta: a regular file gets
\* its headers and goes on to std::fs::read, anything else is 404.
HandleRequestMetadata(meta, path) ==
    IF meta.is_ok /\ meta.value.is_file
    THEN [next |-> "read",
          resp |-> set_header(set_header(ok, <<"Content-Type">>, <<"application/octet-stream">>),
                              <<"Content-Length">>, UsizeToString(meta.value.len)),
          file_path |-> path]
    ELSE Return(not_found)

\* handle_request after std::fs::read returned rd: unwrap() panics on Err.
HandleRequestRead(resp, rd) ==
    IF rd.is_ok
    THEN [next |-> "return", resp |-> set_body(resp, rd.value), file_path |-> <<>>]
    ELSE [next |-> "panic", resp |-> resp, file_path |-> <<>>]

\* handle_connection: match response { Ok(resp) => resp, Err(_) => 500 }
MatchResponse(r) == IF r.is_ok THEN r.value ELSE internal_server_error

\* ------------------------------------------------------------- peers

\* The request a peer means to send.
PeerRequest(method, path, headers, body) ==
    [method |-> method, path |-> path, headers |-> headers, body |-> body]

RECURSIVE WireHeaders(_)
WireHeaders(hs) ==
    IF hs = <<>> THEN <<>>
    ELSE Head(hs)[1] \o <<COLON>> \o Head(hs)[2] \o <<CRLF>> \o WireHeaders(Tail(hs))

\* The bytes of a request on the wire.
Wire(m) ==
    m.method \o <<SP>> \o m.path \o <<SP, "HTTP/1.1", CRLF>>
    \o WireHeaders(m.headers) \o <<CRLF>> \o m.body

UserAgent == << <<"User-Agent">>, <<"test-agent">> >>
ConnectionClose == << <<"Connection">>, <<"close">> >>
ContentLength5 == << <<"Content-Length">>, <<"5">> >>
AcceptGzip == << <<"Accept-Encoding">>, <<"gzip">> >>

\* The well-formed requests the peers send.
PeerRequests ==
    { PeerRequest(<<"GET">>, <<SLASH>>, <<>>, <<>>),
      PeerRequest(<<"GET">>, <<SLASH, "something">>, <<>>, <<>>),
      PeerRequest(<<"GET">>, <<SLASH, "echo", SLASH, "something">>, <<>>, <<>>),
      PeerRequest(<<"GET">>, <<SLASH, "echo">>, <<ConnectionClose>>, <<>>),
      PeerRequest(<<"GET">>, <<SLASH, "echo", SLASH, "hi">>, <<AcceptGzip>>, <<>>),
      PeerRequest(<<"GET">>, <<SLASH, "user-agent">>, <<UserAgent>>, <<>>),
      PeerRequest(<<"GET">>, <<SLASH, "user-agent">>, <<>>, <<>>),
      PeerRequest(<<"GET">>, <<SLASH, "files", SLASH, "a.txt">>, <<>>, <<>>),
      PeerRequest(<<"GET">>, <<SLASH, "files", SLASH, "sub">>, <<>>, <<>>),
      PeerRequest(<<"GET">>, <<SLASH, "files">>, <<>>, <<>>),
      PeerRequest(<<"POST">>, <<SLASH, "files", SLASH, "a.txt">>, <<ContentLength5>>, <<"hello">>),
      PeerRequest(<<"GET">>, <<SLASH, "files", SLASH, "a.txt">>, <<ConnectionClose>>, <<>>) }

\* Bytes that are no well-formed request: nothing at all (the peer closed),
\* a request line of 2 tokens, no blank line, a header without ": ", bytes
\* that are not UTF-8.
MalformedBytes ==
    { <<>>,
      <<"GET", SP, SLASH, CRLF, CRLF>>,
      <<"GET", SP, SLASH, SP, "HTTP/1.1", CRLF>>,
      <<"GET", SP, SLASH, SP, "HTTP/1.1", CRLF, "User-Agent", CRLF, CRLF>>,
      <<"GET", SP, SLASH, SP, "HTTP/1.1", CRLF, BADUTF8, CRLF, CRLF>>,
      <<"GET", SP, SLASH, SP, "HTTP/1.1", CRLF, CRLF, BADUTF8>> }

\* What one read of a connection may find.
PeerSends == {Wire(m) : m \in PeerRequests} \cup MalformedBytes

\* The request whose bytes these are (NoPeerRequest for malformed bytes).
NoPeerRequest == PeerRequest(<<>>, <<>>, <<>>, <<>>)
PeerRequestOf(bytes) ==
    IF \E m \in PeerRequests : Wire(m) = bytes
    THEN CHOOSE m \in PeerRequests : Wire(m) = bytes
    ELSE NoPeerRequest

\* ------------------------------------------------------------- state

Conns == {"c1", "c2"}

\* How many times another actor changes the served file.
MaxFsChanges == 2

\* How many tokens at most one write call leaves unwritten.
MaxUnwritten == 1

\* AsyncWriteExt::write returns Ok(n), 0 < n <= buf.len().
WriteSizes(len) == {n \in 1..len : len - n <= MaxUnwritten}

VARIABLES
    config,      \* main: the ServerConfig built at startup
    fs,          \* the filesystem: path -> entry
    fsChanges,   \* how many times another actor changed the filesystem
    pc,          \* per connection: where its task is
    cfg,         \* per connection: its clone of the ServerConfig
    sent,        \* per connection: the bytes the peer sent (history)
    input,       \* per connection: the read buffer
    request,     \* per connection: the decoded request
    file_path,   \* per connection: handle_request's joined path
    response,    \* per connection: the response being built
    wire,        \* per connection: the bytes written to the socket
    result,      \* per connection: how handle_connection ended
    io           \* per connection: the filesystem calls made (history)

vars == <<config, fs, fsChanges, pc, cfg, sent, input, request, file_path,
          response, wire, result, io>>

NoRequest == HttpRequest(<<>>, <<>>, EmptyMap, <<>>)
NoResponse == HttpResponse(0)

InitFs ==
    /\ fs \in {[p \in FsPaths |->
                   IF p = HotPath THEN e ELSE DirEntry] :
               e \in {NoEntry} \cup {FileEntry(d) : d \in FileContents}}
    /\ fsChanges = 0

\* The server started: config parsed, listener bound, no connection accepted.
Init ==
    /\ \E args \in ArgVectors : config = ParseArgs(args)
    /\ InitFs
    /\ pc = [c \in Conns |-> "accept"]
    /\ cfg = [c \in Conns |-> ServerConfig(None)]
    /\ sent = [c \in Conns |-> <<>>]
    /\ input = [c \in Conns |-> <<>>]
    /\ request = [c \in Conns |-> NoRequest]
    /\ file_path = [c \in Conns |-> <<>>]
    /\ response = [c \in Conns |-> NoResponse]
    /\ wire = [c \in Conns |-> <<>>]
    /\ result = [c \in Conns |-> "running"]
    /\ io = [c \in Conns |-> <<>>]

\* main's loop: accept, clone the config, spawn handle_connection.
Accept(c) ==
    /\ pc[c] = "accept"
    /\ pc' = [pc EXCEPT ![c] = "read"]
    /\ cfg' = [cfg EXCEPT ![c] = config]
    /\ UNCHANGED <<config, fs, fsChanges, sent, input, request, file_path,
                   response, wire, result, io>>

\* BytesMut::zeroed(1024) followed by read_buf, which appends what it reads
\* after the buffer's 1024 bytes.
ReadBuf(bytes) == <<NUL>> \o bytes

Read(c) ==
    /\ pc[c] = "read"
    /\ \E bytes \in PeerSends :
          /\ sent' = [sent EXCEPT ![c] = bytes]
          /\ input' = [input EXCEPT ![c] = ReadBuf(bytes)]
    /\ pc' = [pc EXCEPT ![c] = "decode"]
    /\ UNCHANGED <<config, fs, fsChanges, cfg, request, file_path, response,
                   wire, result, io>>

ReadFailStopsServer(c) ==
    /\ pc[c] = "read"
    /\ pc' = [d \in Conns |-> "closed"]
    /\ result' = [result EXCEPT ![c] = "Failed to read"]
    /\ UNCHANGED <<config, fs, fsChanges, cfg, sent, input, request, file_path,
                   response, wire, io>>

\* read_buf fails: .context("Failed to read")? returns the error.
ReadFail(c) ==
    /\ pc[c] = "read"
    /\ pc' = [pc EXCEPT ![c] = "closed"]
    /\ result' = [result EXCEPT ![c] = "Failed to read"]
    /\ UNCHANGED <<config, fs, fsChanges, cfg, sent, input, request, file_path,
                   response, wire, io>>

DecodeAnswersFailure(c) ==
    /\ pc[c] = "decode"
    /\ LET r == FromBytes(input[c])
       IN IF r.is_ok
          THEN /\ request' = [request EXCEPT ![c] = r.value]
               /\ pc' = [pc EXCEPT ![c] = "handle"]
               /\ UNCHANGED <<result, response>>
          ELSE /\ pc' = [pc EXCEPT ![c] = "write"]
               /\ response' = [response EXCEPT ![c] = internal_server_error]
               /\ UNCHANGED <<request, result>>
    /\ UNCHANGED <<config, fs, fsChanges, cfg, sent, input, file_path, wire, io>>

\* HttpRequest::from_bytes(input)?  The buffer is moved into the call; input
\* keeps what was decoded.
Decode(c) ==
    /\ pc[c] = "decode"
    /\ LET r == FromBytes(input[c])
       IN IF r.is_ok
          THEN /\ request' = [request EXCEPT ![c] = r.value]
               /\ pc' = [pc EXCEPT ![c] = "handle"]
               /\ UNCHANGED result
          ELSE /\ pc' = [pc EXCEPT ![c] = "closed"]
               /\ result' = [result EXCEPT ![c] = r.error]
               /\ UNCHANGED request
    /\ UNCHANGED <<config, fs, fsChanges, cfg, sent, input, file_path, response, wire, io>>

\* handle_request(request, &config) up to and including std::fs::metadata.
Handle(c) ==
    /\ pc[c] = "handle"
    /\ LET start == HandleRequestStart(request[c], cfg[c])
           step == IF start.next = "metadata"
                   THEN HandleRequestMetadata(Metadata(fs, start.file_path), start.file_path)
                   ELSE start
       IN /\ io' = [io EXCEPT ![c] = IF start.next = "metadata" THEN <<"metadata">> ELSE <<>>]
          /\ file_path' = [file_path EXCEPT ![c] = step.file_path]
          /\ IF step.next = "read"
             THEN /\ response' = [response EXCEPT ![c] = step.resp]
                  /\ pc' = [pc EXCEPT ![c] = "file_read"]
             ELSE /\ response' = [response EXCEPT ![c] = MatchResponse(Ok(step.resp))]
                  /\ pc' = [pc EXCEPT ![c] = "write"]
    /\ UNCHANGED <<config, fs, fsChanges, cfg, sent, input, request, wire, result>>

\* std::fs::read(file_path).unwrap() and the return of handle_request.
FileRead(c) ==
    /\ pc[c] = "file_read"
    /\ LET step == HandleRequestRead(response[c], FsRead(fs, file_path[c]))
       IN IF step.next = "return"
          THEN /\ response' = [response EXCEPT ![c] = MatchResponse(Ok(step.resp))]
               /\ pc' = [pc EXCEPT ![c] = "write"]
               /\ UNCHANGED result
          ELSE /\ pc' = [pc EXCEPT ![c] = "closed"]
               /\ result' = [result EXCEPT ![c] = "panic"]
               /\ UNCHANGED response
    /\ io' = [io EXCEPT ![c] = Append(io[c], "read")]
    /\ file_path' = [file_path EXCEPT ![c] = <<>>]
    /\ UNCHANGED <<config, fs, fsChanges, cfg, sent, input, request, wire>>

\* stream.write(result.encode().as_slice()): one write call, which takes the
\* first n bytes of the buffer and may leave the end of it unwritten; then
\* Ok(()) and the stream is dropped.
Write(c) ==
    /\ pc[c] = "write"
    /\ \E order \in Orders(DOMAIN response[c].headers) :
          LET bytes == encode(response[c], order)
          IN \E n \in WriteSizes(Len(bytes)) :
                wire' = [wire EXCEPT ![c] = SubSeq(bytes, 1, n)]
    /\ pc' = [pc EXCEPT ![c] = "closed"]
    /\ result' = [result EXCEPT ![c] = "Ok"]
    /\ UNCHANGED <<config, fs, fsChanges, cfg, sent, input, request, file_path,
                   response, io>>

\* stream.write fails: .context("Unable to write")? returns the error.
WriteFail(c) ==
    /\ pc[c] = "write"
    /\ pc' = [pc EXCEPT ![c] = "closed"]
    /\ result' = [result EXCEPT ![c] = "Unable to write"]
    /\ UNCHANGED <<config, fs, fsChanges, cfg, sent, input, request, file_path,
                   response, wire, io>>

\* Another actor replaces or removes the served file.
FsChange ==
    /\ fsChanges < MaxFsChanges
    /\ \E e \in {NoEntry} \cup {FileEntry(d) : d \in FileContents} :
          /\ e # fs[HotPath]
          /\ fs' = [fs EXCEPT ![HotPath] = e]
    /\ fsChanges' = fsChanges + 1
    /\ UNCHANGED <<config, pc, cfg, sent, input, request, file_path, response,
                   wire, result, io>>

Next ==
    \/ \E c \in Conns : Accept(c)
    \/ \E c \in Conns : Read(c)
    \/ \E c \in Conns : ReadFail(c)
    \/ \E c \in Conns : Decode(c)
    \/ \E c \in Conns : Handle(c)
    \/ \E c \in Conns : FileRead(c)
    \/ \E c \in Conns : Write(c)
    \/ \E c \in Conns : WriteFail(c)
    \/ FsChange

Spec == Init /\ [][Next]_vars

\* ---------------------------------------- handle_request called directly

\* tests_handle_request builds HttpRequest values itself and calls
\* handle_request on them; TestSpec does so for every request below, the
\* filesystem changing under the call as it does under the server.

TestMethods == { <<"GET">>, <<"POST">>, <<"DELETE">> }

TestPaths ==
    { <<>>,
      <<SLASH>>,
      <<SLASH, SLASH>>,
      <<SLASH, "something">>,
      <<SLASH, "something", SLASH, "something">>,
      <<SLASH, "echo", SLASH, "something">>,
      <<SLASH, "echo", SLASH, "something", "x">>,
      <<SLASH, SLASH, "echo", SLASH, SLASH, "hi", SLASH, "x">>,
      <<SLASH, "echo">>,
      <<SLASH, "echo", "x", SLASH, "hi">>,
      <<SLASH, "user-agent">>,
      <<SLASH, "user-agent", SLASH, "x">>,
      <<SLASH, "files", SLASH, "a.txt">>,
      <<SLASH, "files", SLASH, "sub">>,
      <<SLASH, "files", SLASH, "missing">>,
      <<SLASH, "files">>,
      <<SLASH, "files", SLASH>> }

TestHeaders ==
    { EmptyMap,
      Insert(EmptyMap, <<"User-Agent">>, <<"test-agent">>),
      Insert(EmptyMap, <<"Connection">>, <<"close">>) }

TestRequests ==
    { HttpRequest(m, p, h, <<>>) : m \in TestMethods, p \in TestPaths, h \in TestHeaders }

TestConfigs ==
    { ServerConfig(None), ServerConfig(Some(RootDir)), ServerConfig(Some(<<"/nowhere">>)) }

Caller == "c1"

TestInit ==
    /\ config \in TestConfigs
    /\ InitFs
    /\ pc = [c \in Conns |-> IF c = Caller THEN "handle" ELSE "accept"]
    /\ cfg = [c \in Conns |-> config]
    /\ sent = [c \in Conns |-> <<>>]
    /\ input = [c \in Conns |-> <<>>]
    /\ \E r \in TestRequests :
          request = [c \in Conns |-> IF c = Caller THEN r ELSE NoRequest]
    /\ file_path = [c \in Conns |-> <<>>]
    /\ response = [c \in Conns |-> NoResponse]
    /\ wire = [c \in Conns |-> <<>>]
    /\ result = [c \in Conns |-> "running"]
    /\ io = [c \in Conns |-> <<>>]

TestNext ==
    \/ \E c \in Conns : Handle(c)
    \/ \E c \in Conns : FileRead(c)
    \/ FsChange

TestSpec == TestInit /\ [][TestNext]_vars

\* ------------------------------------------ from_bytes called directly

MaxHeaderLines == 2

RequestLines ==
    { <<>>,
      <<SP>>,
      <<"GET">>,
      <<"GET", SP, SLASH>>,
      <<"GET", SP, SLASH, SP, "HTTP/1.1">>,
      <<SP, "POST", SP, SP, SLASH, "files", SLASH, "a.txt", SP, "HTTP/1.1", SP>>,
      <<NUL, "GET", SP, SLASH, "echo", SP, "HTTP/1.1">>,
      <<"GET", SP, SLASH, SP, "HTTP/1.1", SP, "x">>,
      <<"GET", SP, SLASH, SP, SLASH, SP, "HTTP/1.1", SP, "x">> }

HeaderLineChoices ==
    { <<"User-Agent", COLON, "test-agent">>,
      <<"Content-Length", COLON, "5">>,
      <<"Content-Length", COLON, "2">>,
      <<"Content-Length", COLON, "x">>,
      <<"A", COLON>>,
      <<"User-Agent">>,
      <<"A", COLON, "b", COLON, "c">>,
      <<BADUTF8>> }

HeaderBlocks ==
    UNION { [1..n -> HeaderLineChoices] : n \in 0..MaxHeaderLines }

Terminators == { <<CRLF, CRLF>>, <<CRLF>> }

Bodies ==
    { <<>>,
      <<"x", "x">>,
      <<CRLF, CRLF, "x">>,
      <<BADUTF8, "x", "x", "x", "x", "x">> }

RECURSIVE JoinLines(_)
JoinLines(lines) ==
    IF lines = <<>> THEN <<>> ELSE <<CRLF>> \o Head(lines) \o JoinLines(Tail(lines))

\* The byte buffers handed to from_bytes.
DecoderInputs ==
    { rl \o JoinLines(hb) \o t \o b :
        rl \in RequestLines, hb \in HeaderBlocks, t \in Terminators, b \in Bodies }

\* The caller of request.rs's from_bytes.
RsCaller == "c2"

DecodeInit ==
    /\ config = ServerConfig(None)
    /\ fs = [p \in FsPaths |-> IF p = HotPath THEN NoEntry ELSE DirEntry]
    /\ fsChanges = 0
    /\ pc = [c \in Conns |-> IF c = RsCaller THEN "decode_rs" ELSE "decode"]
    /\ cfg = [c \in Conns |-> config]
    /\ sent = [c \in Conns |-> <<>>]
    /\ \E b \in DecoderInputs : input = [c \in Conns |-> b]
    /\ request = [c \in Conns |-> NoRequest]
    /\ file_path = [c \in Conns |-> <<>>]
    /\ response = [c \in Conns |-> NoResponse]
    /\ wire = [c \in Conns |-> <<>>]
    /\ result = [c \in Conns |-> "running"]
    /\ io = [c \in Conns |-> <<>>]

\* HttpRequest::from_bytes(input) of request.rs
DecodeRs(c) ==
    /\ pc[c] = "decode_rs"
    /\ LET r == FromBytesRs(input[c])
       IN IF r.is_ok
          THEN /\ request' = [request EXCEPT ![c] = r.value]
               /\ pc' = [pc EXCEPT ![c] = "decoded"]
               /\ UNCHANGED result
          ELSE /\ pc' = [pc EXCEPT ![c] = "closed"]
               /\ result' = [result EXCEPT ![c] = r.error]
               /\ UNCHANGED request
    /\ UNCHANGED <<config, fs, fsChanges, cfg, sent, input, file_path, response, wire, io>>

DecodeNext ==
    \/ \E c \in Conns : Decode(c)
    \/ \E c \in Conns : DecodeRs(c)

DecodeSpec == DecodeInit /\ [][DecodeNext]_vars

\* ------------------------------------------------- what the claims read

\* handle_request has returned a response on connection c.
Returned(c) ==
    \/ pc[c] = "write"
    \/ pc[c] = "closed" /\ result[c] \in {"Ok", "Unable to write"}

\* handle_request has been entered and left (by return or by panic), or is
\* between its two filesystem calls.
Entered(c) == pc[c] \in {"file_read", "write"} \/ (pc[c] = "closed" /\ io[c] # <<>>) \/ Returned(c)

\* The path consists of "/" only (it has no non-empty segment).
AllSlashes(path) == \A i \in 1..Len(path) : path[i] = SLASH

\* The first index >= from of a token that is not "/", 0 when there is none.
SegStart(path, from) ==
    IF \E i \in from..Len(path) : path[i] # SLASH
    THEN CHOOSE i \in from..Len(path) :
            /\ path[i] # SLASH
            /\ \A k \in from..(i - 1) : path[k] = SLASH
    ELSE 0

\* The last index of the segment that starts at i.
SegEnd(path, i) ==
    CHOOSE j \in i..Len(path) :
        /\ \A k \in i..j : path[k] # SLASH
        /\ (j = Len(path) \/ path[j + 1] = SLASH)

FirstSeg(path) ==
    LET i == SegStart(path, 1)
    IN IF i = 0 THEN <<>> ELSE SubSeq(path, i, SegEnd(path, i))

SecondSeg(path) ==
    LET i == SegStart(path, 1)
    IN IF i = 0 THEN <<>>
       ELSE LET i2 == SegStart(path, SegEnd(path, i) + 1)
            IN IF i2 = 0 THEN <<>> ELSE SubSeq(path, i2, SegEnd(path, i2))

DigitValue(t) ==
    CASE t = "0" -> 0 [] t = "1" -> 1 [] t = "2" -> 2 [] t = "3" -> 3 [] t = "4" -> 4
      [] t = "5" -> 5 [] t = "6" -> 6 [] t = "7" -> 7 [] t = "8" -> 8 [] t = "9" -> 9

\* The number a decimal header value states.
RECURSIVE DecimalValue(_)
DecimalValue(digits) ==
    IF digits = <<>> THEN 0
    ELSE 10 * DecimalValue(SubSeq(digits, 1, Len(digits) - 1)) + DigitValue(digits[Len(digits)])

HasHeader(headers, name, value) == name \in DOMAIN headers /\ headers[name] = value

\* ----------------------------------------------------------- claims

\* C5: handle_request answers 200 with an empty body when the path has no
\* non-empty segment ("/" and ""), and 404 when the first segment is none of
\* echo, user-agent, files, whatever the method, headers and configuration.
C5_RootAndUnknownRoutes ==
    \A c \in Conns :
        Returned(c) =>
            LET path == request[c].path
            IN /\ AllSlashes(path) =>
                     response[c].status_code = 200 /\ response[c].body = <<>>
               /\ (~AllSlashes(path)
                   /\ FirstSeg(path) \notin { <<"echo">>, <<"user-agent">>, <<"files">> }) =>
                     response[c].status_code = 404

C5_Witness ==
    \E c \in Conns :
        /\ Returned(c)
        /\ request[c].path = <<>>
        /\ request[c].method = <<"POST">>
        /\ cfg[c].static_directory.is_some
        /\ response[c].status_code = 200

\* C6: on the echo route handle_request answers 200 with the second segment
\* as the body (empty when there is none), Content-Type: text/plain and
\* Content-Length equal to the byte length of that body.
C6_Echo ==
    \A c \in Conns :
        (Returned(c) /\ FirstSeg(request[c].path) = <<"echo">>) =>
            /\ response[c].status_code = 200
            /\ response[c].body = SecondSeg(request[c].path)
            /\ HasHeader(response[c].headers, <<"Content-Type">>, <<"text/plain">>)
            /\ <<"Content-Length">> \in DOMAIN response[c].headers
            /\ DecimalValue(response[c].headers[<<"Content-Length">>])
                 = ByteLen(SecondSeg(request[c].path))

C6_Witness ==
    \E c \in Conns :
        /\ Returned(c)
        /\ request[c].path = <<SLASH, "echo", SLASH, "something", "x">>
        /\ response[c].body = <<"something", "x">>
        /\ response[c].headers[<<"Content-Length">>] = <<"1", "0">>

\* C7: on the user-agent route handle_request answers 200 with the value of
\* the User-Agent header as the body when the request has that header, and
\* 500 when it has not.
C7_UserAgent ==
    \A c \in Conns :
        (Returned(c) /\ FirstSeg(request[c].path) = <<"user-agent">>) =>
            IF <<"User-Agent">> \in DOMAIN request[c].headers
            THEN /\ response[c].status_code = 200
                 /\ response[c].body = request[c].headers[<<"User-Agent">>]
            ELSE response[c].status_code = 500

C7_Witness ==
    \E c \in Conns :
        /\ Returned(c)
        /\ FirstSeg(request[c].path) = <<"user-agent">>
        /\ <<"User-Agent">> \in DOMAIN request[c].headers
        /\ response[c].body = <<"test-agent">>

\* C9: on the files route, whatever the method, when no static directory is
\* configured or the path has no second segment, handle_request answers 404
\* and reads no file.
C9_FilesNeedsDirectoryAndName ==
    \A c \in Conns :
        (/\ Entered(c)
         /\ FirstSeg(request[c].path) = <<"files">>
         /\ (~cfg[c].static_directory.is_some \/ SecondSeg(request[c].path) = <<>>)) =>
            /\ Returned(c)
            /\ response[c].status_code = 404
            /\ \A i \in 1..Len(io[c]) : io[c][i] # "read"

C9_Witness ==
    \E c \in Conns :
        /\ Returned(c)
        /\ FirstSeg(request[c].path) = <<"files">>
        /\ SecondSeg(request[c].path) = <<>>
        /\ cfg[c].static_directory = Some(RootDir)
        /\ request[c].method = <<"DELETE">>
        /\ response[c].status_code = 404

\* The bytes of the wire after the first blank line: the body the peer got.
BodySent(bytes) ==
    IF \E i \in 1..(Len(bytes) - 1) : bytes[i] = CRLF /\ bytes[i + 1] = CRLF
    THEN LET i == CHOOSE i \in 1..(Len(bytes) - 1) :
                     /\ bytes[i] = CRLF /\ bytes[i + 1] = CRLF
                     /\ \A k \in 1..(i - 1) : ~(bytes[k] = CRLF /\ bytes[k + 1] = CRLF)
         IN SubSeq(bytes, i + 2, Len(bytes))
    ELSE <<>>

\* The bytes on the wire are one whole encoding of the connection's response.
WholeResponseSent(c) ==
    \E order \in Orders(DOMAIN response[c].headers) : wire[c] = encode(response[c], order)

\* The request was read and decoded on connection c.
Decoded(c) == request[c] # NoRequest

\* The request the peer of c sent.
PeerReq(c) == PeerRequestOf(sent[c])

CarriesClose(req) == HasHeader(req.headers, <<"Connection">>, <<"close">>)

\* C1: a connection that has read and decoded a request writes one whole
\* response (status line, headers, blank line, full body) before its
\* iteration ends, unless the socket refuses the write.  Stated on the ended
\* connection.
C1_DecodedRequestIsAnswered ==
    \A c \in Conns :
        (pc[c] = "closed" /\ Decoded(c) /\ result[c] # "Unable to write") =>
            WholeResponseSent(c)

\* C2: the Content-Length of a transmitted response equals the number of body
\* bytes sent, also when the served file changes between the stat and the
\* read.  Stated on the responses the socket took whole.
C2_ContentLengthIsBodyLength ==
    \A c \in Conns :
        (/\ pc[c] = "closed" /\ result[c] = "Ok"
         /\ WholeResponseSent(c)
         /\ <<"Content-Length">> \in DOMAIN response[c].headers) =>
            DecimalValue(response[c].headers[<<"Content-Length">>])
                = ByteLen(BodySent(wire[c]))

\* C3: after the response to a request without Connection: close is written
\* the connection is read again: it is not closed.
C3_KeepAlive ==
    \A c \in Conns :
        (/\ Decoded(c) /\ ~CarriesClose(request[c])
         /\ result[c] = "Ok" /\ WholeResponseSent(c)) =>
            pc[c] # "closed"

\* C4: a decoded request that carries Connection: close is not dispatched to
\* the router and gets no response.
C4_CloseSkipsHandling ==
    \A c \in Conns :
        (Decoded(c) /\ CarriesClose(request[c])) =>
            /\ pc[c] \in {"handle", "closed"}
            /\ response[c] = NoResponse
            /\ wire[c] = <<>>

\* C8: a GET on the files route with a configured directory and a file name
\* is answered 200 with Content-Type: application/octet-stream, a
\* Content-Length equal to the file size and the full file as the body when
\* the stat found a regular file, and 404 when the stat failed or found
\* something else.
C8_FilesGet ==
    \A c \in Conns :
        (/\ request[c].method = <<"GET">>
         /\ FirstSeg(request[c].path) = <<"files">>
         /\ SecondSeg(request[c].path) # <<>>
         /\ cfg[c].static_directory.is_some
         /\ Entered(c) /\ pc[c] # "file_read") =>
            /\ Returned(c)
            /\ IF io[c] = <<"metadata", "read">>
               THEN /\ response[c].status_code = 200
                    /\ HasHeader(response[c].headers, <<"Content-Type">>,
                                 <<"application/octet-stream">>)
                    /\ <<"Content-Length">> \in DOMAIN response[c].headers
                    /\ DecimalValue(response[c].headers[<<"Content-Length">>])
                         = ByteLen(response[c].body)
                    /\ response[c].body \in FileContents
               ELSE response[c].status_code = 404

\* C10: with a configured directory a POST /files/<name> with a non-empty
\* body is answered 201 and the body is what the file then holds.
C10_PostStoresFile ==
    \A c \in Conns :
        (/\ PeerReq(c).method = <<"POST">>
         /\ FirstSeg(PeerReq(c).path) = <<"files">>
         /\ SecondSeg(PeerReq(c).path) # <<>>
         /\ PeerReq(c).body # <<>>
         /\ cfg[c].static_directory.is_some
         /\ fsChanges = 0
         /\ Returned(c)) =>
            /\ response[c].status_code = 201
            /\ fs[JoinPath(cfg[c].static_directory.value, SecondSeg(PeerReq(c).path))]
                 = FileEntry(PeerReq(c).body)


\* C11: on the files route, with a configured directory and a file name, a
\* method that is neither GET nor POST is answered 500, whether or not the
\* file exists.
C11_FilesOtherMethod ==
    \A c \in Conns :
        (/\ request[c].method \notin { <<"GET">>, <<"POST">> }
         /\ FirstSeg(request[c].path) = <<"files">>
         /\ SecondSeg(request[c].path) # <<>>
         /\ cfg[c].static_directory.is_some
         /\ Returned(c)) =>
            response[c].status_code = 500

\* The request's Accept-Encoding value contains gzip.
AcceptsGzip(req) ==
    /\ <<"Accept-Encoding">> \in DOMAIN req.headers
    /\ \E i \in 1..Len(req.headers[<<"Accept-Encoding">>]) :
          req.headers[<<"Accept-Encoding">>][i] = "gzip"

\* C12: the response to a request whose Accept-Encoding contains gzip is
\* sent with Content-Encoding: gzip (and a compressed body); the response to
\* any other request is sent without a Content-Encoding header.
C12_GzipNegotiation ==
    \A c \in Conns :
        (Decoded(c) /\ result[c] = "Ok" /\ WholeResponseSent(c)) =>
            IF AcceptsGzip(request[c])
            THEN HasHeader(response[c].headers, <<"Content-Encoding">>, <<"gzip">>)
            ELSE <<"Content-Encoding">> \notin DOMAIN response[c].headers

\* C13: handle_request never aborts: once entered it returns a response, and
\* when the stat succeeded and the read failed that response is 500.
C13_HandleRequestIsTotal ==
    \A c \in Conns :
        (Entered(c) /\ pc[c] # "file_read") =>
            /\ Returned(c)
            /\ result[c] # "panic"

\* The errors HttpRequest::from_bytes can return.
DecodeErrors ==
    { "Invalid request", "No request line", "invalid request line",
      "No request body found", "invalid header" }

DecodeFailed(c) == pc[c] = "closed" /\ result[c] \in DecodeErrors

\* C14: when decoding the bytes read from a connection fails, nothing is
\* written to the peer, the decoder's error is what handle_connection
\* returns, and the connection neither reads nor writes again. Bytes with no
\* blank line, a non-UTF-8 header block, a malformed request line or a
\* malformed header all end this way.
C14_DecodeFailureDropsConnection ==
    \A c \in Conns :
        /\ (sent[c] \in MalformedBytes /\ pc[c] \notin {"accept", "read", "decode"}) =>
               (DecodeFailed(c) \/ (result[c] = "Failed to read" /\ sent[c] = <<>>))
        /\ DecodeFailed(c) =>
               /\ wire[c] = <<>>
               /\ response[c] = NoResponse
               /\ io[c] = <<>>
               /\ ~ENABLED (Read(c) \/ ReadFail(c) \/ Write(c) \/ WriteFail(c))

C14_Witness ==
    \E c \in Conns :
        /\ DecodeFailed(c)
        /\ result[c] = "invalid header"
        /\ \E d \in Conns : d # c /\ DecodeFailed(d) /\ result[d] = "Invalid request"

\* ---- the decoder's input, read position by position

\* from_bytes has run on c's buffer, and with which outcome.
DecodeDone(c) == pc[c] \notin {"accept", "read", "decode", "decode_rs"} /\ input[c] # <<>>
DecodeOk(c) == DecodeDone(c) /\ request[c] # NoRequest

ValidUtf8(bytes) == \A i \in 1..Len(bytes) : bytes[i] # BADUTF8

\* The position of the first line end, and of the first blank line (the
\* first of its two line ends); Len + 1 when there is none.
FirstCrlf(bytes) ==
    LET at == {i \in 1..Len(bytes) : bytes[i] = CRLF}
    IN IF at = {} THEN Len(bytes) + 1 ELSE CHOOSE i \in at : \A j \in at : i <= j

FirstBlank(bytes) ==
    LET at == {i \in 1..(Len(bytes) - 1) : bytes[i] = CRLF /\ bytes[i + 1] = CRLF}
    IN IF at = {} THEN Len(bytes) + 1 ELSE CHOOSE i \in at : \A j \in at : i <= j

HasBlankLine(bytes) == FirstBlank(bytes) <= Len(bytes)

RequestLineOf(bytes) == SubSeq(bytes, 1, FirstCrlf(bytes) - 1)

\* Where the whitespace-separated tokens of a line start, and the k-th one.
TokStarts(line) ==
    {i \in 1..Len(line) : line[i] # SP /\ (i = 1 \/ line[i - 1] = SP)}

TokCount(line) == Cardinality(TokStarts(line))

RunFrom(line, i, stops) ==
    LET ends == {j \in i..Len(line) : j = Len(line) \/ line[j + 1] \in stops}
    IN SubSeq(line, i, CHOOSE j \in ends : \A k \in ends : j <= k)

Tok(line, k) ==
    LET i == CHOOSE i \in TokStarts(line) :
                 Cardinality({j \in TokStarts(line) : j <= i}) = k
    IN RunFrom(line, i, {SP})

\* The header lines: the lines after the request line and before the first
\* blank line, by the position where each starts.
HeaderStarts(bytes) ==
    {i \in (FirstCrlf(bytes) + 1)..(FirstBlank(bytes) - 1) : bytes[i - 1] = CRLF}

HeaderLine(bytes, i) == RunFrom(bytes, i, {CRLF})

Colons(line) == Cardinality({i \in 1..Len(line) : line[i] = COLON})

ColonAt(line) == CHOOSE i \in 1..Len(line) : line[i] = COLON
HeaderName(line) == SubSeq(line, 1, ColonAt(line) - 1)
HeaderValue(line) == SubSeq(line, ColonAt(line) + 1, Len(line))

HeadersWellFormed(bytes) ==
    \A i \in HeaderStarts(bytes) : Colons(HeaderLine(bytes, i)) = 1

\* C15: from_bytes, given a buffer that is well formed but for its request
\* line, succeeds exactly when the request line has 3 whitespace-separated
\* tokens, the method being the first and the path the second; with any other
\* number of tokens it fails with the request-line error.
C15_RequestLineTokens ==
    \A c \in Conns :
        DecodeDone(c) =>
            LET bytes == input[c]
                line == RequestLineOf(bytes)
            IN /\ (TokCount(line) = 3 /\ ValidUtf8(bytes) /\ HasBlankLine(bytes)
                      /\ HeadersWellFormed(bytes)) =>
                     /\ DecodeOk(c)
                     /\ request[c].method = Tok(line, 1)
                     /\ request[c].path = Tok(line, 2)
               /\ (TokCount(line) # 3 /\ ValidUtf8(bytes) /\ HasBlankLine(bytes)) =>
                     /\ pc[c] = "closed"
                     /\ result[c] \in {"invalid request line", "No request line"}
               /\ DecodeOk(c) => TokCount(line) = 3

C15_Witness ==
    /\ \A c \in Conns : DecodeDone(c)
    /\ \E c \in Conns : DecodeOk(c) /\ request[c].method = <<"POST">>
    /\ TokCount(RequestLineOf(input[RsCaller])) = 3

\* C16: from_bytes, given a buffer with a good request line, gives every
\* header line with exactly one ": " as an entry of the headers, name before
\* and value after the separator, the last line of a name being the one kept;
\* a header line with no ": " or more than one fails the decoding with the
\* header error.
C16_HeaderLines ==
    \A c \in Conns :
        (/\ DecodeDone(c)
         /\ ValidUtf8(input[c])
         /\ HasBlankLine(input[c])
         /\ TokCount(RequestLineOf(input[c])) = 3) =>
            LET bytes == input[c]
                starts == HeaderStarts(bytes)
            IN IF HeadersWellFormed(bytes)
               THEN /\ DecodeOk(c)
                    /\ DOMAIN request[c].headers =
                           {HeaderName(HeaderLine(bytes, i)) : i \in starts}
                    /\ \A i \in starts :
                          LET name == HeaderName(HeaderLine(bytes, i))
                          IN (\A j \in starts :
                                  j > i => HeaderName(HeaderLine(bytes, j)) # name) =>
                                 request[c].headers[name] = HeaderValue(HeaderLine(bytes, i))
               ELSE /\ pc[c] = "closed"
                    /\ result[c] = "invalid header"

\* Both decoders have decoded a buffer in which a header name comes twice.
C16_Witness ==
    /\ \A c \in Conns : DecodeOk(c)
    /\ \E i, j \in HeaderStarts(input[RsCaller]) :
          /\ i < j
          /\ HeaderName(HeaderLine(input[RsCaller], i)) = <<"Content-Length">>
          /\ HeaderName(HeaderLine(input[RsCaller], j)) = <<"Content-Length">>
          /\ HeaderValue(HeaderLine(input[RsCaller], i)) # HeaderValue(HeaderLine(input[RsCaller], j))

\* The bytes after the first blank line.
AfterBlank(bytes) == SubSeq(bytes, FirstBlank(bytes) + 2, Len(bytes))

IsPrefix(p, s) == Len(p) <= Len(s) /\ SubSeq(s, 1, Len(p)) = p

AllDigits(v) == v # <<>> /\ \A i \in 1..Len(v) : v[i] \in
                    {"0", "1", "2", "3", "4", "5", "6", "7", "8", "9"}

\* The Content-Length a decoded request states, 0 when it states none.
StatedLength(req) ==
    IF <<"Content-Length">> \in DOMAIN req.headers
          /\ AllDigits(req.headers[<<"Content-Length">>])
    THEN DecimalValue(req.headers[<<"Content-Length">>])
    ELSE 0

\* C17: the body of a decoded request is the first n bytes after the first
\* blank line, n being the smaller of the stated Content-Length (0 when
\* absent or not a number) and the number of bytes after the blank line.
C17_BodyIsContentLengthBytes ==
    \A c \in Conns :
        DecodeOk(c) =>
            LET after == AfterBlank(input[c])
                n == IF StatedLength(request[c]) <= ByteLen(after)
                     THEN StatedLength(request[c]) ELSE ByteLen(after)
            IN /\ IsPrefix(request[c].body, after)
               /\ ByteLen(request[c].body) = n

\* The same, of the decoder of request.rs alone.
RequestRsBodyIsContentLengthBytes ==
    DecodeOk(RsCaller) =>
        LET after == AfterBlank(input[RsCaller])
            n == IF StatedLength(request[RsCaller]) <= ByteLen(after)
                 THEN StatedLength(request[RsCaller]) ELSE ByteLen(after)
        IN /\ IsPrefix(request[RsCaller].body, after)
           /\ ByteLen(request[RsCaller].body) = n

\* Everything connection c owns.
Own(c) ==
    <<pc[c], cfg[c], sent[c], input[c], request[c], file_path[c], response[c],
      wire[c], result[c], io[c]>>

\* handle_connection of c ended in a failure: an error returned or a panic.
Failed(c) == pc[c] = "closed" /\ result[c] # "Ok"

\* A step never changes the configuration, and a step in which a connection
\* fails touches nothing any other connection owns.
IsolatedStep ==
    /\ config' = config
    /\ \A c \in Conns :
          (~Failed(c) /\ Failed(c)') =>
              \A d \in Conns \ {c} : Own(d)' = Own(d)

\* C18: a failure in one connection ends only that connection. The failing
\* step leaves the other connections and the configuration as they were;
\* whatever has failed, a connection not yet accepted can be accepted, a
\* connection in flight that waits for the socket or the file can go on, and
\* every accepted connection holds the startup configuration.
C18_ConnectionsAreIsolated ==
    /\ [][IsolatedStep]_vars
    /\ [](\A d \in Conns :
             /\ pc[d] = "accept" => ENABLED Accept(d)
             /\ pc[d] = "read" => ENABLED Read(d)
             /\ pc[d] = "file_read" => ENABLED FileRead(d)
             /\ pc[d] = "write" => ENABLED Write(d)
             /\ pc[d] # "accept" => cfg[d] = config)

\* One connection failed in decoding and the other, given a file request,
\* has its whole response on the wire.
C18_Witness ==
    \E c, d \in Conns :
        /\ Failed(c) /\ result[c] \in DecodeErrors
        /\ pc[d] = "closed" /\ result[d] = "Ok"
        /\ response[d].status_code = 200
        /\ FirstSeg(request[d].path) = <<"files">>
        /\ WholeResponseSent(d)
        /\ cfg[d].static_directory.is_some

\* The peer of c sent a whole request of the model.
SentRequest(c) == sent[c] \in {Wire(m) : m \in PeerRequests}

\* C19: the buffer handed to the decoder starts with the bytes the peer sent,
\* the zero fill coming only after them, so the decoded method and path of a
\* well-formed request are the first and second token the peer sent.
C19_BufferStartsWithPeerBytes ==
    \A c \in Conns :
        /\ input[c] # <<>> =>
              /\ IsPrefix(sent[c], input[c])
              /\ \A i \in 1..Len(sent[c]) : input[c][i] # NUL
        /\ (SentRequest(c) /\ Decoded(c)) =>
              /\ request[c].method = Tok(RequestLineOf(sent[c]), 1)
              /\ request[c].path = Tok(RequestLineOf(sent[c]), 2)

\* The status line of each status code.
StatusLine(code) ==
    CASE code = 200 -> <<"HTTP/1.1", SP, "2", "0", "0", SP, "OK", CRLF>>
      [] code = 201 -> <<"HTTP/1.1", SP, "2", "0", "1", SP, "Created", CRLF>>
      [] code = 404 -> <<"HTTP/1.1", SP, "4", "0", "4", SP, "Not Found", CRLF>>
      [] code = 500 -> <<"HTTP/1.1", SP, "5", "0", "0", SP, "Internal Server Error", CRLF>>

\* C20: whatever a connection has put on the wire is the response of a status
\* code 200, 201, 404 or 500 and starts, as far as it was written, with the
\* status line HTTP/1.1 <code> <reason> of that code; the reason Unknown is
\* never sent.
C20_StatusLine ==
    \A c \in Conns :
        wire[c] # <<>> =>
            /\ response[c].status_code \in {200, 201, 404, 500}
            /\ LET line == StatusLine(response[c].status_code)
                   k == IF Len(wire[c]) <= Len(line) THEN Len(wire[c]) ELSE Len(line)
               IN SubSeq(wire[c], 1, k) = SubSeq(line, 1, k)
            /\ \A i \in 1..Len(wire[c]) : wire[c][i] # "Unknown"

\* One connection has sent a whole 404 and the other a whole 500.
C20_Witness ==
    \E c, d \in Conns :
        /\ WholeResponseSent(c) /\ response[c].status_code = 404
        /\ IsPrefix(StatusLine(404), wire[c])
        /\ WholeResponseSent(d) /\ response[d].status_code = 500
        /\ IsPrefix(StatusLine(500), wire[d])

=============================================================================
